---- MODULE Spec2Model ----
(***************************************************************************)
(* A model of the quoted-string crate: quoting (quote.rs), parsing         *)
(* (parse.rs), unquoting (unquote.rs, utils.rs) and the lazy content       *)
(* iterator with its comparisons (iter.rs), over the test grammar of       *)
(* test_utils.rs.                                                          *)
(*                                                                         *)
(* A str is a sequence of chars, a char is its Unicode scalar value.       *)
(* Offsets are byte offsets into the UTF-8 encoding, as in the code.       *)
(***************************************************************************)
EXTENDS Integers, Sequences, FiniteSets

\* ------------------------------------------------------------------ chars

NUL == 0
TAB == 9
LF == 10
SPACE == 32
BANG == 33
DQUOTE == 34
HASH == 35
MINUS == 45
UPPER_A == 65
UPPER_Z == 90
LBRACKET == 91
BACKSLASH == 92
RBRACKET == 93
LOWER_A == 97
LOWER_Z == 122
TILDE == 126
ARROW == 8594

\* ------------------------------------------------------------------ bounds

\* longest content / interior of an input of the quote, parse and unquote operations
MaxLen == 3
\* longest interior and longest right-hand side of a comparison
MaxEqLen == 2

\* the characters inputs are drawn from: one or more of each class of
\* QTEXT_INFO and of the test grammar, and one non-us-ascii char
Chars == {DQUOTE, BACKSLASH, LOWER_A, SPACE, LF, NUL, ARROW}
\* the characters the compared texts are drawn from
CharsEq == {BACKSLASH, LOWER_A, UPPER_A, LF, ARROW}

Strs(A, n) == UNION {[1..k -> A] : k \in 0..n}

\* ------------------------------------------------------------------ str helpers

is_ascii(ch) == ch < 128

len_utf8(ch) == IF ch < 128 THEN 1 ELSE IF ch < 2048 THEN 2 ELSE IF ch < 65536 THEN 3 ELSE 4

RECURSIVE ByteLen(_)
\* str::len(): the length in bytes
ByteLen(s) == IF s = <<>> THEN 0 ELSE len_utf8(Head(s)) + ByteLen(Tail(s))

\* the byte offset char_indices() reports for the i-th char (1-based i)
ByteOffset(s, i) == ByteLen(SubSeq(s, 1, i - 1))

\* the number of chars that start before byte offset off
CharsBefore(s, off) == Cardinality({i \in 1..Len(s) : ByteOffset(s, i) < off})

\* &s[..off] and &s[off..] for an offset on a char boundary
SliceTo(s, off) == SubSeq(s, 1, CharsBefore(s, off))
SliceFrom(s, off) == SubSeq(s, CharsBefore(s, off) + 1, Len(s))

eq_ignore_ascii_case_char(l, r) ==
    LET lower(c) == IF c >= UPPER_A /\ c <= UPPER_Z THEN c + 32 ELSE c
    IN  lower(l) = lower(r)

\* ------------------------------------------------------------------ quote.rs

Unquotable == 0
NeedsQuoting == 1
Normal == 2
Ws == 3

\* the table with DEL (0x7F) entered as a normal char
QTEXT_INFO_del_normal ==
    [i \in 1..128 |->
        CASE i - 1 \in {DQUOTE, BACKSLASH} -> NeedsQuoting
          [] i - 1 \in {SPACE, TAB} -> Ws
          [] i - 1 >= BANG /\ i - 1 \notin {DQUOTE, BACKSLASH} -> Normal
          [] OTHER -> Unquotable]

\* the lookup table for chars < 0x80, entry ch + 1 is the type of ch
QTEXT_INFO ==
    << 0, 0, 0, 0, 0, 0, 0, 0, 0, 3, 0, 0, 0, 0, 0, 0,
       0, 0, 0, 0, 0, 0, 0, 0, 0, 0, 0, 0, 0, 0, 0, 0,
       3, 2, 1, 2, 2, 2, 2, 2, 2, 2, 2, 2, 2, 2, 2, 2,
       2, 2, 2, 2, 2, 2, 2, 2, 2, 2, 2, 2, 2, 2, 2, 2,
       2, 2, 2, 2, 2, 2, 2, 2, 2, 2, 2, 2, 2, 2, 2, 2,
       2, 2, 2, 2, 2, 2, 2, 2, 2, 2, 2, 2, 1, 2, 2, 2,
       2, 2, 2, 2, 2, 2, 2, 2, 2, 2, 2, 2, 2, 2, 2, 2,
       2, 2, 2, 2, 2, 2, 2, 2, 2, 2, 2, 2, 2, 2, 2, 0 >>

\* from_is_ascii that ignores its argument
from_is_ascii_utf8(is_ascii_flag) == "Utf8"

QuotedStringType == {"Utf8", "AsciiOnly"}

from_is_ascii(is_ascii_flag) == IF is_ascii_flag THEN "AsciiOnly" ELSE "Utf8"

is_qtext(ch) ==
    \/ ch = BANG
    \/ ch >= HASH /\ ch <= LBRACKET
    \/ ch >= RBRACKET /\ ch <= TILDE

\* the implementations of ValidWithoutQuotationCheck the crate passes:
\*   AlwaysFalse      |_| false                              (quote)
\*   TokenCheck       struct TokenCheck
\*   PrintableCheck   |ch| ch > ' ' && ch <= '~'
\*   NonAsciiOrQtext  |ch| !ch.is_ascii() || is_qtext(ch)
Checks == {"AlwaysFalse", "TokenCheck", "PrintableCheck", "NonAsciiOrQtext"}

next_char(check, ch) ==
    CASE check = "AlwaysFalse" -> FALSE
      [] check = "TokenCheck" ->
            \/ ch >= LOWER_A /\ ch <= LOWER_Z
            \/ ch >= UPPER_A /\ ch <= UPPER_Z
            \/ ch = MINUS
      [] check = "PrintableCheck" -> ch > SPACE /\ ch <= TILDE
      [] check = "NonAsciiOrQtext" -> ~is_ascii(ch) \/ is_qtext(ch)

\* TokenCheck overrides end, the closures keep the default (true)
end(check, all) ==
    IF check = "TokenCheck" THEN ByteLen(all) > 0 ELSE TRUE

RECURSIVE scan_ahead_from(_, _, _, _, _)
scan_ahead_from(inp, check, ascii_only, i, ascii) ==
    IF i > Len(inp)
    THEN [kind |-> "ok", ascii |-> ascii, offset |-> ByteLen(inp)]
    ELSE LET ch == inp[i]
             first_non_ascii == ascii /\ ~is_ascii(ch)
         IN  IF first_non_ascii /\ ascii_only
             THEN [kind |-> "err", err |-> "NonUsAsciiInput"]
             ELSE LET ascii2 == IF first_non_ascii THEN FALSE ELSE ascii
                  IN  IF ~next_char(check, ch)
                      THEN [kind |-> "ok", ascii |-> ascii2, offset |-> ByteOffset(inp, i)]
                      ELSE scan_ahead_from(inp, check, ascii_only, i + 1, ascii2)

\* scan_ahead that never looks at the QuotedStringType
scan_ahead_allowing_utf8(inp, check, tp) ==
    scan_ahead_from(inp, check, FALSE, 1, TRUE)

scan_ahead(inp, check, tp) ==
    scan_ahead_from(inp, check, tp = "AsciiOnly", 1, TRUE)

RECURSIVE quote_rest(_, _, _, _)
\* the for loop of _quote over rest.chars(), out and ascii are its accumulators
quote_rest(rest, ascii_only, out, ascii) ==
    IF rest = <<>>
    THEN [kind |-> "ok", ascii |-> ascii, out |-> Append(out, DQUOTE)]
    ELSE LET ch == Head(rest)
         IN  IF is_ascii(ch)
             THEN LET res == QTEXT_INFO[ch + 1]
                  IN  IF res = Unquotable
                      THEN [kind |-> "err", err |-> "UnquotableCharacter", ch |-> ch]
                      ELSE quote_rest(Tail(rest), ascii_only,
                                      IF res = NeedsQuoting
                                      THEN out \o <<BACKSLASH, ch>>
                                      ELSE Append(out, ch),
                                      ascii)
             ELSE IF ascii_only
                  THEN [kind |-> "err", err |-> "NonUsAsciiInput"]
                  ELSE quote_rest(Tail(rest), ascii_only, Append(out, ch), FALSE)

\* _quote that puts the input between two '"' as it is
_quote_escaping_nothing(input, was_ascii, quoted_string_type, start_escape_check_from) ==
    [kind |-> "ok", ascii |-> was_ascii, out |-> <<DQUOTE>> \o input \o <<DQUOTE>>]

_quote(input, was_ascii, quoted_string_type, start_escape_check_from) ==
    LET ascii_only == quoted_string_type = "AsciiOnly"
        ok == SliceTo(input, start_escape_check_from)
        rest == SliceFrom(input, start_escape_check_from)
    IN  IF ascii_only /\ ~was_ascii
        THEN [kind |-> "panic"]
        ELSE quote_rest(rest, ascii_only, <<DQUOTE>> \o ok, was_ascii)

\* quote_if_needed without the call of end: the input is handed back as soon as
\* the scan accepts every char
quote_if_needed_skips_end(input, valid_without_quoting, quoted_string_type) ==
    LET scanned == scan_ahead(input, valid_without_quoting, quoted_string_type)
    IN  IF scanned.kind = "err"
        THEN scanned
        ELSE IF scanned.offset = ByteLen(input)
             THEN [kind |-> "ok", qst |-> from_is_ascii(scanned.ascii),
                   owned |-> FALSE, out |-> input]
             ELSE LET quoted == _quote(input, scanned.ascii, quoted_string_type,
                                       scanned.offset)
                  IN  IF quoted.kind = "ok"
                      THEN [kind |-> "ok", qst |-> from_is_ascii(quoted.ascii),
                            owned |-> TRUE, out |-> quoted.out]
                      ELSE quoted

\* kind "ok": qst is the returned QuotedStringType, owned tells Cow::Owned from
\* Cow::Borrowed, out is the string
quote_if_needed(input, valid_without_quoting, quoted_string_type) ==
    LET scanned == scan_ahead(input, valid_without_quoting, quoted_string_type)
    IN  IF scanned.kind = "err"
        THEN scanned
        ELSE IF scanned.offset = ByteLen(input) /\ end(valid_without_quoting, input)
             THEN [kind |-> "ok", qst |-> from_is_ascii(scanned.ascii),
                   owned |-> FALSE, out |-> input]
             ELSE LET quoted == _quote(input, scanned.ascii, quoted_string_type,
                                       scanned.offset)
                  IN  IF quoted.kind = "ok"
                      THEN [kind |-> "ok", qst |-> from_is_ascii(quoted.ascii),
                            owned |-> TRUE, out |-> quoted.out]
                      ELSE quoted

\* Cow::Borrowed reaches unreachable!(), a panic
quote(input) ==
    LET res == quote_if_needed(input, "AlwaysFalse", "Utf8")
    IN  IF res.kind # "ok"
        THEN res
        ELSE IF res.owned
             THEN [kind |-> "ok", qst |-> res.qst, out |-> res.out]
             ELSE [kind |-> "panic"]

\* ------------------------------------------------------------------ spec.rs, test_utils.rs

\* TestQuotedValidator of TestSpec. The validator keeps no state, so a validator
\* value is not modelled. Quotable is the variant spec.rs names NeedsQuotedPair.
validate_next_char(ch) ==
    CASE ch \in {BACKSLASH, DQUOTE, NUL} -> [kind |-> "Quotable"]
      [] ch \notin {BACKSLASH, DQUOTE, NUL} /\ ch >= BANG /\ ch <= TILDE -> [kind |-> "QText"]
      [] ch \in {SPACE, TAB} -> [kind |-> "SemanticWs"]
      [] ch = LF -> [kind |-> "NotSemantic"]
      [] OTHER -> [kind |-> "Invalid", err |-> "Unquoteable"]

\* The same validator as parse.rs and iter.rs see it: their ValidationResult has a
\* variant Escape for the escape marker, next to Quotable, and they name the
\* not-semantic variant NotSemanticWs.
validate_next_char_esc(ch) ==
    IF ch = BACKSLASH THEN [kind |-> "Escape"] ELSE validate_next_char(ch)

\* validate_is_quotable that also refuses the chars that need a quoted-pair
validate_is_quotable_refusing_quotable(ch) ==
    LET res == validate_next_char_esc(ch)
    IN  CASE res.kind = "Invalid" -> [kind |-> "err", err |-> res.err]
          [] res.kind \in {"Quotable", "Escape"} -> [kind |-> "err", err |-> "Unquoteable"]
          [] OTHER -> [kind |-> "ok"]

\* the default method of QuotedValidator
validate_is_quotable(ch) ==
    LET res == validate_next_char_esc(ch)
    IN  IF res.kind = "Invalid" THEN [kind |-> "err", err |-> res.err] ELSE [kind |-> "ok"]

\* unquoted_quotable_char that returns the error of unquoteable_char
unquoted_quotable_char_as_unquoteable(ch) == "Unquoteable"

unquoted_quotable_char(ch) == "EscapeMissing"

quoted_string_missing_quotes == "QuotesMissing"

\* error_for_tailing_escape that returns Ok(()) for every grammar
error_for_tailing_escape_lenient(policy) == [kind |-> "ok"]

\* The policy of a grammar for a tailing escape: TestSpec returns the error, the
\* trait lets a grammar return Ok(()) instead ("Lenient").
Policies == {"TestSpec", "Lenient"}

error_for_tailing_escape(policy) ==
    IF policy = "TestSpec" THEN [kind |-> "err", err |-> "TailingEscape"] ELSE [kind |-> "ok"]

\* ------------------------------------------------------------------ utils.rs

\* strip_quotes with the slice 1..len: the closing '"' is kept
strip_quotes_keeping_closing(quoted_string) ==
    IF quoted_string # <<>> /\ Head(quoted_string) = DQUOTE
       /\ quoted_string[Len(quoted_string)] = DQUOTE
    THEN [kind |-> "some", content |-> SliceFrom(quoted_string, 1)]
    ELSE [kind |-> "none"]

\* bytes[0] and bytes[len-1] are '"' exactly when the first and the last char are;
\* &quoted_string[1..len-1] with len = 1 is the slice 1..0, a panic
strip_quotes(quoted_string) ==
    LET len == ByteLen(quoted_string)
    IN  IF quoted_string # <<>> /\ Head(quoted_string) = DQUOTE
           /\ quoted_string[Len(quoted_string)] = DQUOTE
        THEN IF 1 > len - 1
             THEN [kind |-> "panic"]
             ELSE [kind |-> "some", content |-> SliceTo(SliceFrom(quoted_string, 1), len - 2)]
        ELSE [kind |-> "none"]

\* ------------------------------------------------------------------ parse.rs

\* Parsed with the slice 0..idx: quoted_string loses its closing '"'
Parsed_without_closing(input, idx) ==
    [kind |-> "ok",
     quoted_string |-> SliceTo(input, idx),
     tail |-> SliceFrom(input, idx + 1)]

\* the value parse returns when the closing '"' is at byte offset idx
Parsed(input, idx) ==
    LET next_char_idx == idx + 1
    IN  [kind |-> "ok",
         quoted_string |-> SliceTo(input, next_char_idx),
         tail |-> SliceFrom(input, next_char_idx)]

RECURSIVE parse_from(_, _, _)
\* the for loop of parse, i is the 1-based index of the next char
parse_from(input, i, last_was_escape) ==
    IF i > Len(input)
    THEN [kind |-> "err", offset |-> ByteLen(input), err |-> quoted_string_missing_quotes]
    ELSE LET ch == input[i]
             idx == ByteOffset(input, i)
         IN  IF last_was_escape
             THEN LET q == validate_is_quotable(ch)
                  IN  IF q.kind = "err"
                      THEN [kind |-> "err", offset |-> idx, err |-> q.err]
                      ELSE parse_from(input, i + 1, FALSE)
             ELSE IF ch = DQUOTE
                  THEN Parsed(input, idx)
                  ELSE LET res == validate_next_char_esc(ch)
                       IN  CASE res.kind \in {"QText", "SemanticWs", "NotSemantic"} ->
                                    parse_from(input, i + 1, FALSE)
                             [] res.kind = "Escape" ->
                                    parse_from(input, i + 1, TRUE)
                             [] res.kind = "Quotable" ->
                                    [kind |-> "err", offset |-> idx,
                                     err |-> unquoted_quotable_char(ch)]
                             [] res.kind = "Invalid" ->
                                    [kind |-> "err", offset |-> idx, err |-> res.err]

\* parse without the check of the first byte
parse_without_first_check(input) == parse_from(input, 2, FALSE)

\* parse that begins as if the opening '"' were an escape marker
parse_starting_escaped(input) ==
    IF input = <<>> \/ Head(input) # DQUOTE
    THEN [kind |-> "err", offset |-> 0, err |-> quoted_string_missing_quotes]
    ELSE parse_from(input, 2, TRUE)

parse(input) ==
    IF input = <<>> \/ Head(input) # DQUOTE
    THEN [kind |-> "err", offset |-> 0, err |-> quoted_string_missing_quotes]
    ELSE parse_from(input, 2, FALSE)

\* validate that does not look at the tail
validate_ignoring_tail(input) == parse(input).kind = "ok"

validate(input) ==
    LET res == parse(input)
    IN  IF res.kind = "ok" THEN res.tail = <<>> ELSE FALSE

\* ------------------------------------------------------------------ iter.rs

\* from_parts_unchecked that drops the text it is given
from_parts_unchecked_empty(partial_quoted_content) == [inner |-> <<>>]

\* A ContentChars is its inner Chars, the text not yet read.
from_parts_unchecked(partial_quoted_content) == [inner |-> partial_quoted_content]

from_str_unchecked(quoted) ==
    LET stripped == strip_quotes(quoted)
    IN  CASE stripped.kind = "panic" -> [kind |-> "panic"]
          [] stripped.kind = "none" -> [kind |-> "err", err |-> quoted_string_missing_quotes]
          [] stripped.kind = "some" -> [kind |-> "ok", cc |-> [inner |-> stripped.content]]

RECURSIVE next(_, _)
\* Iterator::next: item is None, Some(Ok(ch)) or Some(Err(err)), cc the iterator after
next(self, policy) ==
    IF self.inner = <<>>
    THEN [item |-> [kind |-> "none"], cc |-> self]
    ELSE LET ch == Head(self.inner)
             after == Tail(self.inner)
             res == validate_next_char_esc(ch)
         IN  CASE res.kind \in {"QText", "SemanticWs"} ->
                      [item |-> [kind |-> "ok", ch |-> ch], cc |-> [inner |-> after]]
               [] res.kind = "Escape" ->
                      IF after # <<>>
                      THEN [item |-> [kind |-> "ok", ch |-> Head(after)],
                            cc |-> [inner |-> Tail(after)]]
                      ELSE LET te == error_for_tailing_escape(policy)
                           IN  [item |-> IF te.kind = "ok"
                                         THEN [kind |-> "ok", ch |-> BACKSLASH]
                                         ELSE te,
                                cc |-> [inner |-> after]]
               [] res.kind = "Quotable" ->
                      [item |-> [kind |-> "err", err |-> unquoted_quotable_char(ch)],
                       cc |-> [inner |-> after]]
               [] res.kind = "Invalid" ->
                      [item |-> [kind |-> "err", err |-> res.err], cc |-> [inner |-> after]]
               [] res.kind = "NotSemantic" -> next([inner |-> after], policy)

\* Iterator::size_hint: that of the inner Chars, which for len bytes left is
\* ((len + 3) / 4, Some(len))
size_hint(self) ==
    [lower |-> (ByteLen(self.inner) + 3) \div 4, upper |-> ByteLen(self.inner)]

\* other.chars().map(|ch| Ok(ch)): the items of a str
chars_next(s) ==
    IF s = <<>>
    THEN [item |-> [kind |-> "none"], rest |-> s]
    ELSE [item |-> [kind |-> "ok", ch |-> Head(s)], rest |-> Tail(s)]

\* cmp with the case-insensitive closure in both places
cmp_ignoring_case(ignore_case, l, r) == eq_ignore_ascii_case_char(l, r)

\* the two closures passed as cmp
cmp(ignore_case, l, r) ==
    IF ignore_case THEN eq_ignore_ascii_case_char(l, r) ELSE l = r

\* an iterator of iter_eq: a ContentChars (cc) or the chars of a str (str)
it_next(it, policy) ==
    IF it.type = "cc"
    THEN LET n == next(it.cc, policy)
         IN  [item |-> n.item, it |-> [type |-> "cc", cc |-> n.cc]]
    ELSE LET n == chars_next(it.s)
         IN  [item |-> n.item, it |-> [type |-> "str", s |-> n.rest]]

RECURSIVE iter_eq(_, _, _, _)
iter_eq(left, right, ignore_case, policy) ==
    LET l == it_next(left, policy)
        r == it_next(right, policy)
    IN  IF l.item.kind = "none" /\ r.item.kind = "none"
        THEN TRUE
        ELSE IF l.item.kind = "ok" /\ r.item.kind = "ok"
                /\ cmp(ignore_case, l.item.ch, r.item.ch)
             THEN iter_eq(l.it, r.it, ignore_case, policy)
             ELSE FALSE

CC(cc) == [type |-> "cc", cc |-> cc]
STR(s) == [type |-> "str", s |-> s]

\* impl PartialEq<str> for ContentChars
eq_str(self, other, policy) == iter_eq(CC(self), STR(other), FALSE, policy)
\* impl PartialEq<ContentChars> for &str
eq_refstr_cc(self, other, policy) == eq_str(other, self, policy)
\* impl PartialEq<&str> for ContentChars
eq_refstr(self, other, policy) == eq_str(self, other, policy)
\* impl PartialEq<ContentChars> for ContentChars
eq_cc(self, other, policy) == iter_eq(CC(self), CC(other), FALSE, policy)

\* impl AsciiCaseInsensitiveEq<str> for ContentChars
eq_ignore_ascii_case_str(self, other, policy) == iter_eq(CC(self), STR(other), TRUE, policy)
\* impl AsciiCaseInsensitiveEq<ContentChars> for ContentChars
eq_ignore_ascii_case_cc(self, other, policy) == iter_eq(CC(self), CC(other), TRUE, policy)
\* impl AsciiCaseInsensitiveEq<ContentChars> for &str: other == *self
eq_ignore_ascii_case_refstr_cc(self, other, policy) == eq_refstr(other, self, policy)
\* impl AsciiCaseInsensitiveEq<&str> for ContentChars: self == *other
eq_ignore_ascii_case_refstr(self, other, policy) == eq_str(self, other, policy)

RECURSIVE collect(_, _, _)
\* pushes the items of a ContentChars onto buffer up to the first error
collect(cc, buffer, policy) ==
    LET n == next(cc, policy)
    IN  CASE n.item.kind = "none" -> [kind |-> "ok", out |-> buffer]
          [] n.item.kind = "err" -> n.item
          [] n.item.kind = "ok" -> collect(n.cc, Append(buffer, n.item.ch), policy)

\* ------------------------------------------------------------------ unquote.rs

RECURSIVE scan_unchanged_from(_, _)
scan_unchanged_from(input, i) ==
    IF i > Len(input)
    THEN [kind |-> "ValidUnchanged"]
    ELSE LET ch == input[i]
             idx == ByteOffset(input, i)
             res == validate_next_char(ch)
         IN  CASE res.kind \in {"QText", "SemanticWs"} -> scan_unchanged_from(input, i + 1)
               [] res.kind = "Quotable" ->
                      IF ch = BACKSLASH
                      THEN [kind |-> "ValidUpTo", split_idx |-> idx, last_ch |-> ch,
                            last_was |-> "Escape"]
                      ELSE [kind |-> "err", err |-> unquoted_quotable_char(ch)]
               [] res.kind = "NotSemantic" ->
                      [kind |-> "ValidUpTo", split_idx |-> idx, last_ch |-> ch,
                       last_was |-> "NotSemanticWs"]
               [] res.kind = "Invalid" -> [kind |-> "err", err |-> res.err]

\* scan_unchanged that never finds a split point
scan_unchanged_never_splits(input) == [kind |-> "ValidUnchanged"]

scan_unchanged(input) == scan_unchanged_from(input, 1)

\* kind "ok": owned tells Cow::Owned from Cow::Borrowed, out is the content
to_content(quoted_string, policy) ==
    LET stripped == strip_quotes(quoted_string)
    IN  CASE stripped.kind = "panic" -> [kind |-> "panic"]
          [] stripped.kind = "none" -> [kind |-> "err", err |-> quoted_string_missing_quotes]
          [] stripped.kind = "some" ->
             LET quoted_string_content == stripped.content
                 unchanged == scan_unchanged(quoted_string_content)
             IN  CASE unchanged.kind = "err" -> unchanged
                   [] unchanged.kind = "ValidUnchanged" ->
                          [kind |-> "ok", owned |-> FALSE, out |-> quoted_string_content]
                   [] unchanged.kind = "ValidUpTo" ->
                      LET unquoted == SliceTo(quoted_string_content, unchanged.split_idx)
                          tail == SliceFrom(quoted_string_content, unchanged.split_idx)
                          after == SliceFrom(tail, 1)
                          te == error_for_tailing_escape(policy)
                          \* buffer and tail_offset after the match on last_was
                          handled ==
                              IF unchanged.last_was = "Escape"
                              THEN IF after # <<>>
                                   THEN [kind |-> "ok",
                                         buffer |-> Append(unquoted, Head(after)),
                                         tail_offset |-> 1 + len_utf8(Head(after))]
                                   ELSE IF te.kind = "err"
                                        THEN te
                                        ELSE [kind |-> "ok",
                                              buffer |-> Append(unquoted, BACKSLASH),
                                              tail_offset |-> 1]
                              ELSE [kind |-> "ok", buffer |-> unquoted,
                                    tail_offset |-> len_utf8(unchanged.last_ch)]
                      IN  IF handled.kind = "err"
                          THEN handled
                          ELSE LET iter == from_parts_unchecked(
                                               SliceFrom(tail, handled.tail_offset))
                                   rest == collect(iter, handled.buffer, policy)
                               IN  IF rest.kind = "err"
                                   THEN rest
                                   ELSE [kind |-> "ok", owned |-> TRUE, out |-> rest.out]

\* ------------------------------------------------------------------ the calls

\* input: the str passed to the call; arg: its other arguments; op: the function
\* called ("init" before the call); res: what it returned
VARIABLES input, arg, op, res

vars == <<input, arg, op, res>>

Wrap(s) == <<DQUOTE>> \o s \o <<DQUOTE>>

NoArg == [none |-> TRUE]
NoRes == [kind |-> "none"]

\* any content, and any text between two '"'
Inputs == Strs(Chars, MaxLen) \cup {Wrap(s) : s \in Strs(Chars, MaxLen)}

Init ==
    /\ input \in Inputs
    /\ arg = NoArg
    /\ op = "init"
    /\ res = NoRes

Quote ==
    /\ op = "init"
    /\ op' = "quote"
    /\ res' = quote(input)
    /\ UNCHANGED <<input, arg>>

QuoteIfNeeded ==
    /\ op = "init"
    /\ \E check \in Checks, tp \in QuotedStringType :
          /\ arg' = [check |-> check, tp |-> tp]
          /\ res' = quote_if_needed(input, check, tp)
    /\ op' = "quote_if_needed"
    /\ UNCHANGED input

Parse ==
    /\ op = "init"
    /\ op' = "parse"
    /\ res' = parse(input)
    /\ UNCHANGED <<input, arg>>

Validate ==
    /\ op = "init"
    /\ op' = "validate"
    /\ res' = [kind |-> "ok", ret |-> validate(input)]
    /\ UNCHANGED <<input, arg>>

ToContent ==
    /\ op = "init"
    /\ \E policy \in Policies :
          /\ arg' = [policy |-> policy]
          /\ res' = to_content(input, policy)
    /\ op' = "to_content"
    /\ UNCHANGED input

FromStrUnchecked ==
    /\ op = "init"
    /\ op' = "from_str_unchecked"
    /\ res' = from_str_unchecked(input)
    /\ UNCHANGED <<input, arg>>

\* ContentChars::from_str_unchecked(input)?.collect::<Result<String, _>>()
Collect ==
    /\ op = "init"
    /\ \E policy \in Policies :
          /\ arg' = [policy |-> policy]
          /\ res' = LET made == from_str_unchecked(input)
                    IN  IF made.kind = "ok" THEN collect(made.cc, <<>>, policy) ELSE made
    /\ op' = "collect"
    /\ UNCHANGED input

Next ==
    \/ Quote
    \/ QuoteIfNeeded
    \/ Parse
    \/ Validate
    \/ ToContent
    \/ FromStrUnchecked
    \/ Collect

Spec == Init /\ [][Next]_vars

\* ------------------------------------------------------------------ the comparisons

\* input: the quoted string a ContentChars is made from, either arg.content between
\* two '"' (arg.made_by = "wrap") or quote(arg.content) (arg.made_by = "quote");
\* arg.other: the str it is compared with, or the interior of the quoted string of
\* the other ContentChars; arg.policy: the tailing-escape policy of the grammar
InitEq ==
    /\ \E s \in Strs(CharsEq, MaxEqLen), made_by \in {"wrap", "quote"} :
          /\ made_by = "quote" => quote(s).kind = "ok"
          /\ input = IF made_by = "wrap" THEN Wrap(s) ELSE quote(s).out
          /\ arg \in [other : Strs(CharsEq, MaxEqLen), policy : Policies,
                      made_by : {made_by}, content : {s}]
    /\ op = "init"
    /\ res = NoRes

Left == from_str_unchecked(input).cc
RightCC == from_str_unchecked(Wrap(arg.other)).cc

\* impl PartialEq<str> for ContentChars
EqStr ==
    /\ op = "init"
    /\ op' = "eq_str"
    /\ res' = [kind |-> "ok", ret |-> eq_str(Left, arg.other, arg.policy)]
    /\ UNCHANGED <<input, arg>>

\* impl PartialEq<&str> for ContentChars
EqRefStr ==
    /\ op = "init"
    /\ op' = "eq_refstr"
    /\ res' = [kind |-> "ok", ret |-> eq_refstr(Left, arg.other, arg.policy)]
    /\ UNCHANGED <<input, arg>>

\* impl PartialEq<ContentChars> for &str
RefStrEqCC ==
    /\ op = "init"
    /\ op' = "eq_refstr_cc"
    /\ res' = [kind |-> "ok", ret |-> eq_refstr_cc(arg.other, Left, arg.policy)]
    /\ UNCHANGED <<input, arg>>

\* impl PartialEq<ContentChars> for ContentChars
EqCC ==
    /\ op = "init"
    /\ op' = "eq_cc"
    /\ res' = [kind |-> "ok", ret |-> eq_cc(Left, RightCC, arg.policy)]
    /\ UNCHANGED <<input, arg>>

\* impl AsciiCaseInsensitiveEq<str> for ContentChars
EqIgnoreAsciiCaseStr ==
    /\ op = "init"
    /\ op' = "eq_ignore_ascii_case_str"
    /\ res' = [kind |-> "ok", ret |-> eq_ignore_ascii_case_str(Left, arg.other, arg.policy)]
    /\ UNCHANGED <<input, arg>>

\* impl AsciiCaseInsensitiveEq<&str> for ContentChars
EqIgnoreAsciiCaseRefStr ==
    /\ op = "init"
    /\ op' = "eq_ignore_ascii_case_refstr"
    /\ res' = [kind |-> "ok", ret |-> eq_ignore_ascii_case_refstr(Left, arg.other, arg.policy)]
    /\ UNCHANGED <<input, arg>>

\* impl AsciiCaseInsensitiveEq<ContentChars> for &str
RefStrEqIgnoreAsciiCaseCC ==
    /\ op = "init"
    /\ op' = "eq_ignore_ascii_case_refstr_cc"
    /\ res' = [kind |-> "ok", ret |-> eq_ignore_ascii_case_refstr_cc(arg.other, Left, arg.policy)]
    /\ UNCHANGED <<input, arg>>

\* impl AsciiCaseInsensitiveEq<ContentChars> for ContentChars
EqIgnoreAsciiCaseCC ==
    /\ op = "init"
    /\ op' = "eq_ignore_ascii_case_cc"
    /\ res' = [kind |-> "ok", ret |-> eq_ignore_ascii_case_cc(Left, RightCC, arg.policy)]
    /\ UNCHANGED <<input, arg>>

NextEq ==
    \/ EqStr
    \/ EqRefStr
    \/ RefStrEqCC
    \/ EqCC
    \/ EqIgnoreAsciiCaseStr
    \/ EqIgnoreAsciiCaseRefStr
    \/ RefStrEqIgnoreAsciiCaseCC
    \/ EqIgnoreAsciiCaseCC

SpecEq == InitEq /\ [][NextEq]_vars

\* ------------------------------------------------------------------ the scan automaton

\* The automaton over the quoted-string grammar whose errors error.rs declares
\* (CoreError). Its states are Start, Normal, EscapeStarted, End and Failed; the
\* test grammar defines no Custom substate.
AutomatonState == {"Start", "Normal", "EscapeStarted", "End", "Failed"}

\* the most chars fed to one automaton
MaxFeed == 3

\* one advance from a state that is neither End nor Failed: a transition that
\* fails leaves the automaton in Failed
advance_live(state, ch) ==
    CASE state = "Start" ->
            IF ch = DQUOTE
            THEN [state |-> "Normal", res |-> [kind |-> "ok"]]
            ELSE [state |-> "Failed",
                  res |-> [kind |-> "err", err |-> "DoesNotStartWithDQuotes"]]
      [] state = "Normal" ->
            IF ch = DQUOTE
            THEN [state |-> "End", res |-> [kind |-> "ok"]]
            ELSE IF ch = BACKSLASH
                 THEN [state |-> "EscapeStarted", res |-> [kind |-> "ok"]]
                 ELSE IF validate_next_char(ch).kind \in {"QText", "SemanticWs", "NotSemantic"}
                      THEN [state |-> "Normal", res |-> [kind |-> "ok"]]
                      ELSE [state |-> "Failed",
                            res |-> [kind |-> "err", err |-> "InvalidChar"]]
      [] state = "EscapeStarted" ->
            IF validate_is_quotable(ch).kind = "ok"
            THEN [state |-> "Normal", res |-> [kind |-> "ok"]]
            ELSE [state |-> "Failed",
                  res |-> [kind |-> "err", err |-> "UnquoteableCharQuoted"]]

\* an automaton that starts over when it is advanced after End
advance_restarting(state, ch) ==
    CASE state = "End" -> advance_live("Start", ch)
      [] state = "Failed" ->
            [state |-> "Failed", res |-> [kind |-> "err", err |-> "AdvancedFailedAutomaton"]]
      [] OTHER -> advance_live(state, ch)

\* one advance: the state after it and what it returns
advance(state, ch) ==
    CASE state = "End" ->
            [state |-> "End", res |-> [kind |-> "err", err |-> "QuotedStringAlreadyEnded"]]
      [] state = "Failed" ->
            [state |-> "Failed", res |-> [kind |-> "err", err |-> "AdvancedFailedAutomaton"]]
      [] OTHER -> advance_live(state, ch)

RECURSIVE StateAfter(_, _)
\* the state of an automaton that started in Start and was fed the first k chars of s
StateAfter(s, k) ==
    IF k = 0 THEN "Start" ELSE advance(StateAfter(s, k - 1), s[k]).state

\* input: the chars fed so far; arg.state: the state of the automaton; op: "new"
\* before the first advance, then "advance"; res: what the last advance returned
InitAutomaton ==
    /\ input = <<>>
    /\ arg = [state |-> "Start"]
    /\ op = "new"
    /\ res = NoRes

Advance ==
    /\ Len(input) < MaxFeed
    /\ \E ch \in Chars :
          /\ input' = Append(input, ch)
          /\ arg' = [state |-> advance(arg.state, ch).state]
          /\ res' = advance(arg.state, ch).res
    /\ op' = "advance"

NextAutomaton == Advance

SpecAutomaton == InitAutomaton /\ [][NextAutomaton]_vars

\* ------------------------------------------------------------------ the consumers of a quoted validator, step by step

\* The calls a consumer makes on its q_validator, in order. validate_is_quotable
\* is the default method: it calls validate_next_char.
Validated(ch) == [call |-> "validate_next_char", ch |-> ch]
Ended == [call |-> "end_validation"]

RECURSIVE next_validated(_)
\* the chars one call of ContentChars::next passes to validate_next_char
next_validated(self) ==
    IF self.inner = <<>>
    THEN <<>>
    ELSE IF validate_next_char_esc(Head(self.inner)).kind = "NotSemantic"
         THEN <<Head(self.inner)>> \o next_validated([inner |-> Tail(self.inner)])
         ELSE <<Head(self.inner)>>

\* the calls of one ContentChars::next
NextCalls(self) == [k \in 1..Len(next_validated(self)) |-> Validated(next_validated(self)[k])]

Consumers == {"parse", "to_content", "ContentChars"}

\* input: the str passed to the consumer; arg.consumer: the function called;
\* arg.policy: the tailing-escape policy of the grammar; arg.log: the calls made on
\* the q_validator so far; arg.l: the local variables of the consumer; op: where
\* the consumer is ("done" after it returned); res: what it returned
InitSteps ==
    /\ input \in Inputs
    /\ arg \in [consumer : Consumers, policy : Policies, log : {<<>>}, l : {NoArg}]
    /\ op = "init"
    /\ res = NoRes

\* parse up to its loop
ParseEnter ==
    /\ op = "init" /\ arg.consumer = "parse"
    /\ IF input = <<>> \/ Head(input) # DQUOTE
       THEN /\ op' = "done"
            /\ res' = [kind |-> "err", offset |-> 0, err |-> quoted_string_missing_quotes]
            /\ UNCHANGED arg
       ELSE /\ op' = "parse"
            /\ arg' = [arg EXCEPT !.l = [i |-> 2, last_was_escape |-> FALSE]]
            /\ UNCHANGED res
    /\ UNCHANGED input

\* one turn of the loop of parse, or the return after it
ParseStep ==
    /\ op = "parse"
    /\ LET i == arg.l.i
           Return(r) == op' = "done" /\ res' = r
           Continue(esc) == /\ op' = "parse" /\ UNCHANGED res
       IN  IF i > Len(input)
           THEN /\ Return([kind |-> "err", offset |-> ByteLen(input),
                           err |-> quoted_string_missing_quotes])
                /\ UNCHANGED arg
           ELSE LET ch == input[i]
                    idx == ByteOffset(input, i)
                    logged == Append(arg.log, Validated(ch))
                    class == validate_next_char_esc(ch)
                IN  IF arg.l.last_was_escape
                    THEN IF validate_is_quotable(ch).kind = "err"
                         THEN /\ Return([kind |-> "err", offset |-> idx,
                                         err |-> validate_is_quotable(ch).err])
                              /\ arg' = [arg EXCEPT !.log = logged]
                         ELSE /\ Continue(FALSE)
                              /\ arg' = [arg EXCEPT !.log = logged,
                                            !.l = [i |-> i + 1, last_was_escape |-> FALSE]]
                    ELSE IF ch = DQUOTE
                         THEN Return(Parsed(input, idx)) /\ UNCHANGED arg
                         ELSE CASE class.kind \in {"QText", "SemanticWs", "NotSemantic"} ->
                                      /\ Continue(FALSE)
                                      /\ arg' = [arg EXCEPT !.log = logged,
                                                    !.l = [i |-> i + 1, last_was_escape |-> FALSE]]
                                [] class.kind = "Escape" ->
                                      /\ Continue(TRUE)
                                      /\ arg' = [arg EXCEPT !.log = logged,
                                                    !.l = [i |-> i + 1, last_was_escape |-> TRUE]]
                                [] class.kind = "Quotable" ->
                                      /\ Return([kind |-> "err", offset |-> idx,
                                                 err |-> unquoted_quotable_char(ch)])
                                      /\ arg' = [arg EXCEPT !.log = logged]
                                [] class.kind = "Invalid" ->
                                      /\ Return([kind |-> "err", offset |-> idx, err |-> class.err])
                                      /\ arg' = [arg EXCEPT !.log = logged]
    /\ UNCHANGED input

\* to_content up to the call of scan_unchanged
ToContentEnter ==
    /\ op = "init" /\ arg.consumer = "to_content"
    /\ LET stripped == strip_quotes(input)
       IN  CASE stripped.kind = "panic" ->
                    op' = "done" /\ res' = [kind |-> "panic"] /\ UNCHANGED arg
             [] stripped.kind = "none" ->
                    /\ op' = "done"
                    /\ res' = [kind |-> "err", err |-> quoted_string_missing_quotes]
                    /\ UNCHANGED arg
             [] stripped.kind = "some" ->
                    /\ op' = "scan_unchanged"
                    /\ arg' = [arg EXCEPT !.l = [content |-> stripped.content, i |-> 1]]
                    /\ UNCHANGED res
    /\ UNCHANGED input

\* one turn of the loop of scan_unchanged, or its return and what to_content does
\* with Err and with ValidUnchanged
ScanUnchangedStep ==
    /\ op = "scan_unchanged"
    /\ LET content == arg.l.content
           i == arg.l.i
       IN  IF i > Len(content)
           THEN /\ op' = "done"
                /\ res' = [kind |-> "ok", owned |-> FALSE, out |-> content]
                /\ UNCHANGED arg
           ELSE LET ch == content[i]
                    logged == Append(arg.log, Validated(ch))
                    class == validate_next_char(ch)
                    ValidUpTo(last_was) ==
                        /\ op' = "split"
                        /\ arg' = [arg EXCEPT !.log = logged,
                                      !.l = [content |-> content,
                                             split_idx |-> ByteOffset(content, i),
                                             last_ch |-> ch, last_was |-> last_was]]
                        /\ UNCHANGED res
                    Err(err) ==
                        /\ op' = "done"
                        /\ res' = [kind |-> "err", err |-> err]
                        /\ arg' = [arg EXCEPT !.log = logged]
                IN  CASE class.kind \in {"QText", "SemanticWs"} ->
                             /\ op' = "scan_unchanged"
                             /\ arg' = [arg EXCEPT !.log = logged, !.l.i = i + 1]
                             /\ UNCHANGED res
                      [] class.kind = "Quotable" ->
                             IF ch = BACKSLASH
                             THEN ValidUpTo("Escape")
                             ELSE Err(unquoted_quotable_char(ch))
                      [] class.kind = "NotSemantic" -> ValidUpTo("NotSemanticWs")
                      [] class.kind = "Invalid" -> Err(class.err)
    /\ UNCHANGED input

\* to_content from ValidUpTo to the ContentChars over the rest
ToContentSplit ==
    /\ op = "split"
    /\ LET unquoted == SliceTo(arg.l.content, arg.l.split_idx)
           tail == SliceFrom(arg.l.content, arg.l.split_idx)
           after == SliceFrom(tail, 1)
           te == error_for_tailing_escape(arg.policy)
           Iter(buffer, tail_offset) ==
               /\ op' = "iter"
               /\ arg' = [arg EXCEPT
                             !.l = [cc |-> from_parts_unchecked(SliceFrom(tail, tail_offset)),
                                    buffer |-> buffer]]
               /\ UNCHANGED res
       IN  IF arg.l.last_was = "Escape"
           THEN IF after # <<>>
                THEN Iter(Append(unquoted, Head(after)), 1 + len_utf8(Head(after)))
                ELSE IF te.kind = "err"
                     THEN op' = "done" /\ res' = te /\ UNCHANGED arg
                     ELSE Iter(Append(unquoted, BACKSLASH), 1)
           ELSE Iter(unquoted, len_utf8(arg.l.last_ch))
    /\ UNCHANGED input

\* one turn of for ch in iter { buffer.push(ch?) }, or the return after it
IterStep ==
    /\ op = "iter"
    /\ LET n == next(arg.l.cc, arg.policy)
           logged == arg.log \o NextCalls(arg.l.cc)
       IN  CASE n.item.kind = "none" ->
                    /\ op' = "done"
                    /\ res' = [kind |-> "ok", owned |-> TRUE, out |-> arg.l.buffer]
                    /\ arg' = [arg EXCEPT !.log = logged]
             [] n.item.kind = "err" ->
                    /\ op' = "done"
                    /\ res' = n.item
                    /\ arg' = [arg EXCEPT !.log = logged]
             [] n.item.kind = "ok" ->
                    /\ op' = "iter"
                    /\ arg' = [arg EXCEPT !.log = logged,
                                  !.l = [cc |-> n.cc,
                                         buffer |-> Append(arg.l.buffer, n.item.ch)]]
                    /\ UNCHANGED res
    /\ UNCHANGED input

\* ContentChars::from_str_unchecked
ContentCharsEnter ==
    /\ op = "init" /\ arg.consumer = "ContentChars"
    /\ LET made == from_str_unchecked(input)
       IN  IF made.kind = "ok"
           THEN /\ op' = "content_chars"
                /\ arg' = [arg EXCEPT !.l = [cc |-> made.cc, buffer |-> <<>>]]
                /\ UNCHANGED res
           ELSE op' = "done" /\ res' = made /\ UNCHANGED arg
    /\ UNCHANGED input

\* one ContentChars::next of a caller that collects the items up to the first
\* error or None
ContentCharsNext ==
    /\ op = "content_chars"
    /\ LET n == next(arg.l.cc, arg.policy)
           logged == arg.log \o NextCalls(arg.l.cc)
       IN  CASE n.item.kind = "none" ->
                    /\ op' = "done"
                    /\ res' = [kind |-> "ok", out |-> arg.l.buffer]
                    /\ arg' = [arg EXCEPT !.log = logged]
             [] n.item.kind = "err" ->
                    /\ op' = "done"
                    /\ res' = n.item
                    /\ arg' = [arg EXCEPT !.log = logged]
             [] n.item.kind = "ok" ->
                    /\ op' = "content_chars"
                    /\ arg' = [arg EXCEPT !.log = logged,
                                  !.l = [cc |-> n.cc,
                                         buffer |-> Append(arg.l.buffer, n.item.ch)]]
                    /\ UNCHANGED res
    /\ UNCHANGED input

NextSteps ==
    \/ ParseEnter
    \/ ParseStep
    \/ ToContentEnter
    \/ ScanUnchangedStep
    \/ ToContentSplit
    \/ IterStep
    \/ ContentCharsEnter
    \/ ContentCharsNext

SpecSteps == InitSteps /\ [][NextSteps]_vars

\* ------------------------------------------------------------------ quote_if_needed, step by step

\* The calls one quote_if_needed makes, in order: next_char and end on its
\* valid_without_quoting, and the classification of a char in _quote (the
\* is_ascii test with the QTEXT_INFO lookup). i is the index of the char.
NextCharCall(i, ch, ret) == [call |-> "next_char", i |-> i, ch |-> ch, ret |-> ret]
EndCall(ret) == [call |-> "end", ret |-> ret]
Classified(i, ch) == [call |-> "classify", i |-> i, ch |-> ch]

\* input: the str to quote; arg.check, arg.tp: the other arguments; arg.log: the
\* calls made so far; arg.l: the local variables; op: where the call is ("done"
\* after it returned); res: what it returned
InitQuoteSteps ==
    /\ input \in Strs(Chars, MaxLen)
    /\ arg \in [check : Checks, tp : QuotedStringType, log : {<<>>}, l : {NoArg}]
    /\ op = "init"
    /\ res = NoRes

\* quote_if_needed calls scan_ahead
QuoteIfNeededEnter ==
    /\ op = "init"
    /\ op' = "scan_ahead"
    /\ arg' = [arg EXCEPT !.l = [i |-> 1, ascii |-> TRUE]]
    /\ UNCHANGED <<input, res>>

\* one turn of the loop of scan_ahead, or its return
ScanAheadStep ==
    /\ op = "scan_ahead"
    /\ LET i == arg.l.i
           ascii == arg.l.ascii
           Scanned(asc, offset) ==
               /\ op' = "scanned"
               /\ UNCHANGED res
       IN  IF i > Len(input)
           THEN /\ Scanned(ascii, ByteLen(input))
                /\ arg' = [arg EXCEPT !.l = [ascii |-> ascii, offset |-> ByteLen(input)]]
           ELSE LET ch == input[i]
                    first_non_ascii == ascii /\ ~is_ascii(ch)
                    ascii2 == IF first_non_ascii THEN FALSE ELSE ascii
                    ret == next_char(arg.check, ch)
                    logged == Append(arg.log, NextCharCall(i, ch, ret))
                IN  IF first_non_ascii /\ arg.tp = "AsciiOnly"
                    THEN /\ op' = "done"
                         /\ res' = [kind |-> "err", err |-> "NonUsAsciiInput"]
                         /\ UNCHANGED arg
                    ELSE IF ~ret
                         THEN /\ Scanned(ascii2, ByteOffset(input, i))
                              /\ arg' = [arg EXCEPT !.log = logged,
                                            !.l = [ascii |-> ascii2,
                                                   offset |-> ByteOffset(input, i)]]
                         ELSE /\ op' = "scan_ahead"
                              /\ arg' = [arg EXCEPT !.log = logged,
                                            !.l = [i |-> i + 1, ascii |-> ascii2]]
                              /\ UNCHANGED res
    /\ UNCHANGED input

\* _quote up to its loop, with log the calls made before it
EnterQuoteAt(log, start_escape_check_from) ==
    IF arg.tp = "AsciiOnly" /\ ~arg.l.ascii
    THEN op' = "done" /\ res' = [kind |-> "panic"] /\ arg' = [arg EXCEPT !.log = log]
    ELSE /\ op' = "_quote"
         /\ arg' = [arg EXCEPT !.log = log,
                       !.l = [i |-> CharsBefore(input, start_escape_check_from) + 1,
                              out |-> <<DQUOTE>> \o SliceTo(input, start_escape_check_from),
                              ascii |-> arg.l.ascii]]
         /\ UNCHANGED res

\* the call of _quote that quotes the whole input again
EnterQuoteFromStart(log, offset) == EnterQuoteAt(log, 0)

\* the call _quote(input, ascii, quoted_string_type, offset) of quote_if_needed
EnterQuote(log, offset) == EnterQuoteAt(log, offset)

\* quote_if_needed from the return of scan_ahead to its own return or to _quote
AfterScanAhead ==
    /\ op = "scanned"
    /\ LET offset == arg.l.offset
           ended == Append(arg.log, EndCall(end(arg.check, input)))
       IN  IF offset = ByteLen(input)
           THEN IF end(arg.check, input)
                THEN /\ op' = "done"
                     /\ res' = [kind |-> "ok", qst |-> from_is_ascii(arg.l.ascii),
                                owned |-> FALSE, out |-> input]
                     /\ arg' = [arg EXCEPT !.log = ended]
                ELSE EnterQuote(ended, offset)
           ELSE EnterQuote(arg.log, offset)
    /\ UNCHANGED input

\* one turn of the loop of _quote, or the return of _quote and of quote_if_needed
QuoteStep ==
    /\ op = "_quote"
    /\ LET i == arg.l.i
       IN  IF i > Len(input)
           THEN /\ op' = "done"
                /\ res' = [kind |-> "ok", qst |-> from_is_ascii(arg.l.ascii),
                           owned |-> TRUE, out |-> Append(arg.l.out, DQUOTE)]
                /\ UNCHANGED arg
           ELSE LET ch == input[i]
                    logged == Append(arg.log, Classified(i, ch))
                    Push(out, asc) ==
                        /\ op' = "_quote"
                        /\ arg' = [arg EXCEPT !.log = logged,
                                      !.l = [i |-> i + 1, out |-> out, ascii |-> asc]]
                        /\ UNCHANGED res
                    Err(e) ==
                        /\ op' = "done"
                        /\ res' = e
                        /\ arg' = [arg EXCEPT !.log = logged]
                IN  IF is_ascii(ch)
                    THEN IF QTEXT_INFO[ch + 1] = Unquotable
                         THEN Err([kind |-> "err", err |-> "UnquotableCharacter", ch |-> ch])
                         ELSE IF QTEXT_INFO[ch + 1] = NeedsQuoting
                              THEN Push(arg.l.out \o <<BACKSLASH, ch>>, arg.l.ascii)
                              ELSE Push(Append(arg.l.out, ch), arg.l.ascii)
                    ELSE IF arg.tp = "AsciiOnly"
                         THEN Err([kind |-> "err", err |-> "NonUsAsciiInput"])
                         ELSE Push(Append(arg.l.out, ch), FALSE)
    /\ UNCHANGED input

NextQuoteSteps ==
    \/ QuoteIfNeededEnter
    \/ ScanAheadStep
    \/ AfterScanAhead
    \/ QuoteStep

SpecQuoteSteps == InitQuoteSteps /\ [][NextQuoteSteps]_vars

\* ------------------------------------------------------------------ claims

Last(s) == s[Len(s)]

\* no char of s is Invalid for the quoted validator of the grammar
GrammarAccepts(s) == \A i \in 1..Len(s) : validate_next_char(s[i]).kind # "Invalid"

\* s with a backslash put before every '"' and every backslash
RECURSIVE Escaped(_)
Escaped(s) ==
    IF s = <<>> THEN <<>>
    ELSE (IF Head(s) \in {DQUOTE, BACKSLASH} THEN <<BACKSLASH, Head(s)>> ELSE <<Head(s)>>)
         \o Escaped(Tail(s))

\* C1: round trip. When quote(s) succeeds and the grammar accepts every char of s,
\* to_content(quote(s)) succeeds and its content is s, whatever the tailing-escape policy.
C1_RoundTrip ==
    (op = "quote" /\ res.kind = "ok" /\ GrammarAccepts(input))
        => \A policy \in Policies :
              LET back == to_content(res.out, policy)
              IN  back.kind = "ok" /\ back.out = input

C1_Witness ==
    /\ op = "quote" /\ res.kind = "ok" /\ GrammarAccepts(input)
    /\ Len(input) = MaxLen
    /\ \E i, j \in 1..Len(input) : input[i] = DQUOTE /\ input[j] = BACKSLASH
    /\ to_content(res.out, "TestSpec").out = input

\* C2: quote(s) returns an error or a string of two or more chars that begins and
\* ends with '"', for every s, the empty one included.
C2_AlwaysQuoted ==
    op = "quote"
        => \/ res.kind = "err"
           \/ /\ res.kind = "ok"
              /\ Len(res.out) >= 2
              /\ Head(res.out) = DQUOTE
              /\ Last(res.out) = DQUOTE

\* the longest prefix of s the check accepts char by char
RECURSIVE PassingPrefixLen(_, _)
PassingPrefixLen(check, s) ==
    IF s # <<>> /\ next_char(check, Head(s))
    THEN 1 + PassingPrefixLen(check, Tail(s))
    ELSE 0

\* C3: minimality. A successful quote_if_needed returns the input, borrowed, exactly
\* when the check accepts every char of it and its end test passes; otherwise it
\* returns an owned string: '"', the accepted prefix, the rest with escapes applied, '"'.
C3_Minimality ==
    (op = "quote_if_needed" /\ res.kind = "ok")
        => LET k == PassingPrefixLen(arg.check, input)
               all_pass == k = Len(input)
               end_ok == end(arg.check, input)
           IN  /\ ~res.owned <=> (all_pass /\ end_ok)
               /\ ~res.owned => res.out = input
               /\ res.owned =>
                     res.out = Wrap(SubSeq(input, 1, k) \o Escaped(SubSeq(input, k + 1, Len(input))))

\* all chars accepted, the end test fails: the empty input under TokenCheck is quoted
C3_Witness ==
    /\ op = "quote_if_needed" /\ res.kind = "ok"
    /\ arg.check = "TokenCheck"
    /\ input = <<>>
    /\ res.owned /\ res.out = <<DQUOTE, DQUOTE>>

\* C4 as stated: whenever quote(s) succeeds, parse(quote(s)) succeeds, matches the
\* whole of quote(s) and leaves an empty tail.
C4_ParserConsistency_Stated ==
    (op = "quote" /\ res.kind = "ok")
        => LET parsed == parse(res.out)
           IN  parsed.kind = "ok" /\ parsed.quoted_string = res.out /\ parsed.tail = <<>>

\* C4 amended: the same, for the s whose chars the grammar's quoted validator accepts.
C4_ParserConsistency ==
    (op = "quote" /\ res.kind = "ok" /\ GrammarAccepts(input))
        => LET parsed == parse(res.out)
           IN  parsed.kind = "ok" /\ parsed.quoted_string = res.out /\ parsed.tail = <<>>

C4_Witness ==
    /\ op = "quote" /\ res.kind = "ok" /\ GrammarAccepts(input)
    /\ Len(input) = MaxLen
    /\ input[1] = DQUOTE /\ input[2] = BACKSLASH
    /\ parse(res.out).kind = "ok" /\ parse(res.out).quoted_string = res.out

\* C5: validate(x) is true exactly when parse(x) succeeds with an empty tail.
C5_ValidateEquivalence ==
    op = "validate"
        => LET parsed == parse(input)
           IN  res.ret <=> (parsed.kind = "ok" /\ parsed.tail = <<>>)

\* parse succeeds and leaves a tail: validate is false
C5_Witness ==
    /\ op = "validate"
    /\ parse(input).kind = "ok" /\ parse(input).tail # <<>>
    /\ res.ret = FALSE

\* C8: to_content and from_str_unchecked return the missing-quotes error for every
\* input without a leading or a trailing '"' and for every input of less than two
\* chars; from every other input one leading and one trailing '"' are removed.
C8_MissingQuotes ==
    LET lacks == Len(input) < 2 \/ Head(input) # DQUOTE \/ Last(input) # DQUOTE
        missing == [kind |-> "err", err |-> "QuotesMissing"]
    IN  /\ (op \in {"to_content", "from_str_unchecked"} /\ lacks) => res = missing
        /\ (op = "from_str_unchecked" /\ ~lacks)
              => res.kind = "ok" /\ res.cc.inner = SubSeq(input, 2, Len(input) - 1)

\* the chars between index 2 and k - 1 that are backslashes, counted back from k - 1
RECURSIVE BackslashRun(_, _)
BackslashRun(s, k) ==
    IF k - 1 >= 2 /\ s[k - 1] = BACKSLASH THEN 1 + BackslashRun(s, k - 1) ELSE 0

\* the char at index k follows a pending backslash
IsEscaped(s, k) == BackslashRun(s, k) % 2 = 1

\* the indices after the first of the '"' that no pending backslash escapes
ClosingQuotes(s) == {k \in 2..Len(s) : s[k] = DQUOTE /\ ~IsEscaped(s, k)}

\* the indices of the chars the grammar rejects where they stand: an Invalid char,
\* or outside a quoted-pair a char that needs one (other than the '"' and the
\* backslash that starts a pair)
Rejected(s) ==
    {k \in 2..Len(s) :
        LET class == validate_next_char(s[k]).kind
        IN  \/ class = "Invalid"
            \/ ~IsEscaped(s, k) /\ class = "Quotable" /\ s[k] \notin {DQUOTE, BACKSLASH}}

Min(S) == CHOOSE x \in S : \A y \in S : x <= y

\* the first index at which the scan of parse stops, 0 if it reaches the end
FirstStop(s) ==
    IF ClosingQuotes(s) \cup Rejected(s) = {} THEN 0 ELSE Min(ClosingQuotes(s) \cup Rejected(s))

\* C9: when parse succeeds, quoted_string followed by tail is the input,
\* quoted_string starts at index 0 with '"' and ends at the first later '"' that no
\* pending backslash escapes, and tail is all that follows.
C9_ParsedSpan ==
    (op = "parse" /\ res.kind = "ok")
        => LET k == Min(ClosingQuotes(input))
           IN  /\ res.quoted_string \o res.tail = input
               /\ Head(res.quoted_string) = DQUOTE
               /\ ClosingQuotes(input) # {}
               /\ res.quoted_string = SubSeq(input, 1, k)
               /\ res.tail = SubSeq(input, k + 1, Len(input))

\* an escaped '"' is passed over, the match ends at the next one, a tail is left
C9_Witness ==
    /\ op = "parse" /\ res.kind = "ok"
    /\ input = <<DQUOTE, BACKSLASH, DQUOTE, DQUOTE, DQUOTE>>
    /\ res.quoted_string = <<DQUOTE, BACKSLASH, DQUOTE, DQUOTE>>
    /\ res.tail = <<DQUOTE>>

\* C10: parse returns for every input. It fails at offset 0 with the missing-quotes
\* error when the first byte is not '"'; at the byte offset of the first rejected
\* char with that char's error when the scan meets one before a closing '"'; and at
\* input.len() with the missing-quotes error when the scan reaches the end.
C10_ParseErrors ==
    op = "parse"
        => LET stop == FirstStop(input)
               class == validate_next_char(input[stop]).kind
           IN  /\ res.kind \in {"ok", "err"}
               /\ (input = <<>> \/ Head(input) # DQUOTE)
                     => res = [kind |-> "err", offset |-> 0, err |-> "QuotesMissing"]
               /\ (input # <<>> /\ Head(input) = DQUOTE /\ stop = 0)
                     => res = [kind |-> "err", offset |-> ByteLen(input),
                               err |-> "QuotesMissing"]
               /\ (input # <<>> /\ Head(input) = DQUOTE /\ stop \in Rejected(input))
                     => res = [kind |-> "err", offset |-> ByteOffset(input, stop),
                               err |-> IF class = "Invalid" THEN "Unquoteable"
                                       ELSE "EscapeMissing"]
               /\ (input # <<>> /\ Head(input) = DQUOTE
                   /\ stop # 0 /\ stop \notin Rejected(input))
                     => res.kind = "ok"

\* the last '"' is consumed by the backslash before it: no closing quote is found
C10_Witness ==
    /\ op = "parse"
    /\ input = <<DQUOTE, LOWER_A, BACKSLASH, DQUOTE>>
    /\ res = [kind |-> "err", offset |-> 4, err |-> "QuotesMissing"]

\* C6 as stated: whenever quote(s) succeeds, the ContentChars made from quote(s)
\* compares equal to s and unequal to every other string.
C6_LazyEquality_Stated ==
    (op = "eq_str" /\ arg.made_by = "quote")
        => (res.ret <=> arg.other = arg.content)

\* C6 amended: the same, for the s whose chars the grammar's quoted validator accepts.
C6_LazyEquality ==
    (op = "eq_str" /\ arg.made_by = "quote" /\ GrammarAccepts(arg.content))
        => (res.ret <=> arg.other = arg.content)

\* the iterator over quote("\\a") compares equal to "\\a"
C6_Witness ==
    /\ op = "eq_str" /\ arg.made_by = "quote"
    /\ arg.content = <<BACKSLASH, LOWER_A>>
    /\ input = <<DQUOTE, BACKSLASH, BACKSLASH, LOWER_A, DQUOTE>>
    /\ arg.other = arg.content
    /\ res.ret = TRUE

\* the content a quoted string decodes to, or the error
Decoded(quoted, policy) == collect(from_str_unchecked(quoted).cc, <<>>, policy)

SameIgnoringAsciiCase(x, y) ==
    /\ Len(x) = Len(y)
    /\ \A i \in 1..Len(x) : eq_ignore_ascii_case_char(x[i], y[i])

\* C7: each of the four eq_ignore_ascii_case implementations returns true exactly
\* when both sides decode without error to sequences of the same length whose chars
\* are pairwise equal ignoring ASCII case.
C7_IgnoreAsciiCase ==
    LET left == Decoded(input, arg.policy)
        right_cc == Decoded(Wrap(arg.other), arg.policy)
    IN  /\ op \in {"eq_ignore_ascii_case_str", "eq_ignore_ascii_case_refstr",
                   "eq_ignore_ascii_case_refstr_cc"}
              => (res.ret <=> (left.kind = "ok" /\ SameIgnoringAsciiCase(left.out, arg.other)))
        /\ op = "eq_ignore_ascii_case_cc"
              => (res.ret <=> (/\ left.kind = "ok"
                               /\ right_cc.kind = "ok"
                               /\ SameIgnoringAsciiCase(left.out, right_cc.out)))

\* the text between the first and the last char of a quoted string
Interior(quoted) == SubSeq(quoted, 2, Len(quoted) - 1)

\* what a decoder makes of an interior: a backslash is dropped and the char after
\* it kept as it is (a backslash nothing follows stays), a non-semantic
\* whitespace is dropped, every other char is kept
RECURSIVE Unquoted(_)
Unquoted(s) ==
    IF s = <<>> THEN <<>>
    ELSE IF Head(s) = BACKSLASH /\ Len(s) >= 2
         THEN <<s[2]>> \o Unquoted(SubSeq(s, 3, Len(s)))
         ELSE IF Head(s) = LF
              THEN Unquoted(Tail(s))
              ELSE <<Head(s)>> \o Unquoted(Tail(s))

\* C11: for a quoted string with a valid interior (validate accepts it), to_content
\* succeeds and returns the interior with the backslash of every quoted-pair
\* removed and the char after it kept verbatim, every non-semantic whitespace
\* removed and every other char kept, in the original order.
C11_Content ==
    (op = "to_content" /\ validate(input))
        => res.kind = "ok" /\ res.out = Unquoted(Interior(input))

\* a non-semantic whitespace, then a quoted-pair, then a char that is kept
C11_Witness ==
    /\ op = "to_content" /\ validate(input)
    /\ input = Wrap(<<LF, BACKSLASH, DQUOTE>>) \/ input = Wrap(<<BACKSLASH, LF, LOWER_A>>)
    /\ res.kind = "ok"
    /\ res.out \in {<<DQUOTE>>, <<LF, LOWER_A>>}

\* C12: a successful to_content returns the interior borrowed exactly when the
\* interior holds no escape marker and no non-semantic whitespace, and an owned
\* buffer in every other successful case; a failed call returns no slice.
C12_Borrowed ==
    op = "to_content"
        => /\ res.kind = "ok" =>
                 /\ ~res.owned <=> \A i \in 1..Len(Interior(input)) :
                                       Interior(input)[i] \notin {BACKSLASH, LF}
                 /\ ~res.owned => res.out = Interior(input)
           /\ res.kind # "ok" => DOMAIN res \cap {"owned", "out"} = {}

\* plain text and semantic whitespace only: the interior comes back borrowed
C12_Witness ==
    /\ op = "to_content"
    /\ input = Wrap(<<LOWER_A, SPACE, LOWER_A>>)
    /\ res = [kind |-> "ok", owned |-> FALSE, out |-> <<LOWER_A, SPACE, LOWER_A>>]

\* the indices of the chars of a quoted string a decoder rejects: outside a
\* quoted-pair, an Invalid char or a char that needs a quoted-pair
RejectedUnescaped(quoted) ==
    {k \in 2..(Len(quoted) - 1) :
        LET class == validate_next_char(quoted[k]).kind
        IN  /\ ~IsEscaped(quoted, k)
            /\ \/ class = "Invalid"
               \/ class = "Quotable" /\ quoted[k] # BACKSLASH}

\* the interior ends in a backslash that starts a quoted-pair and has no char after it
TailingEscape(quoted) ==
    /\ Len(quoted) >= 3
    /\ Head(quoted) = DQUOTE /\ Last(quoted) = DQUOTE
    /\ quoted[Len(quoted) - 1] = BACKSLASH
    /\ IsEscaped(quoted, Len(quoted))

\* what the tailing-escape policy of the grammar decides for the call: its error
\* if it returns one, else a backslash as the last decoded char
DecidedByPolicy ==
    IF arg.policy = "TestSpec"
    THEN res = [kind |-> "err", err |-> "TailingEscape"]
    ELSE /\ res.kind = "ok"
         /\ res.out = Unquoted(Interior(input))
         /\ Last(res.out) = BACKSLASH

\* C13 as stated: when the interior ends in a backslash with no char after it,
\* the outcome of to_content and of ContentChars is decided solely by the
\* tailing-escape policy of the grammar: its error if it returns one, else a
\* backslash as the last decoded char.
C13_TailingEscape_Stated ==
    (op \in {"to_content", "collect"} /\ TailingEscape(input)) => DecidedByPolicy

\* C13 amended: when the interior ends in a backslash with no char after it and
\* no char before it, outside a quoted-pair, needs a quoted-pair or is rejected by
\* the validator, to_content and ContentChars end as the tailing-escape policy of
\* the grammar says: with its error if it returns one, else with a backslash as
\* the last decoded char.
C13_TailingEscape ==
    (op \in {"to_content", "collect"} /\ TailingEscape(input)
     /\ RejectedUnescaped(input) = {})
        => DecidedByPolicy

\* a quoted-pair, then the tailing backslash, under the policy that accepts it
C13_Witness ==
    /\ op = "to_content" /\ arg.policy = "Lenient"
    /\ input = Wrap(<<BACKSLASH, BACKSLASH, BACKSLASH>>)
    /\ TailingEscape(input)
    /\ res.kind = "ok" /\ res.out = <<BACKSLASH, BACKSLASH>>

\* the error of the char at index k of a quoted string
CharError(quoted, k) ==
    IF validate_next_char(quoted[k]).kind = "Invalid" THEN "Unquoteable" ELSE "EscapeMissing"

\* the indices of the chars of the interior the claim C19 names as stated: a char
\* that needs a quoted-pair and has no backslash before it, or a char the
\* quoted validator rejects
RejectedAnywhere(quoted) ==
    {k \in 2..(Len(quoted) - 1) :
        LET class == validate_next_char(quoted[k]).kind
        IN  \/ class = "Invalid"
            \/ class = "Quotable" /\ quoted[k] # BACKSLASH /\ quoted[k - 1] # BACKSLASH}

WellQuoted(quoted) ==
    Len(quoted) >= 2 /\ Head(quoted) = DQUOTE /\ Last(quoted) = DQUOTE

\* C19 as stated: to_content fails with the error of the first char of the interior
\* that needs a quoted-pair without a backslash before it or that the quoted
\* validator rejects.
C19_DecodeErrors_Stated ==
    (op = "to_content" /\ WellQuoted(input) /\ RejectedAnywhere(input) # {})
        => res = [kind |-> "err", err |-> CharError(input, Min(RejectedAnywhere(input)))]

\* the part of C19 the decoders keep: the same for the chars outside a quoted-pair
C19_DecodeErrors ==
    (op \in {"to_content", "collect"} /\ WellQuoted(input) /\ RejectedUnescaped(input) # {})
        => res = [kind |-> "err", err |-> CharError(input, Min(RejectedUnescaped(input)))]

\* a NUL outside a quoted-pair before a char the validator rejects: the error is that of the NUL
C19_Witness ==
    /\ op = "to_content"
    /\ input = Wrap(<<LOWER_A, NUL, ARROW>>)
    /\ res = [kind |-> "err", err |-> "EscapeMissing"]

AllAscii(s) == \A i \in 1..Len(s) : is_ascii(s[i])

\* the indices of the chars of s that cannot appear in a quoted string at all
UnquotableAt(s) == {i \in 1..Len(s) : is_ascii(s[i]) /\ QTEXT_INFO[s[i] + 1] = Unquotable}

\* the call quotes from the first char on: quote of a text that is not empty, or
\* quote_if_needed when the check refuses the first char or the empty input
\* fails the end test; and no char is refused for not being us-ascii
QuotesFromFirst ==
    \/ op = "quote" /\ input # <<>>
    \/ /\ op = "quote_if_needed"
       /\ PassingPrefixLen(arg.check, input) = 0
       /\ input = <<>> => ~end(arg.check, input)
       /\ arg.tp = "Utf8" \/ AllAscii(input)

\* C15: when quoting starts at the first char, the output is '"', each char of the
\* input in order, alone or, exactly for '"' and backslash, after one backslash,
\* then '"'; if a char is unquotable the call returns the unquotable-character
\* error with the first such char and no output.
C15_QuoteShape ==
    QuotesFromFirst
        => IF UnquotableAt(input) = {}
           THEN res.kind = "ok" /\ res.out = Wrap(Escaped(input))
           ELSE res = [kind |-> "err", err |-> "UnquotableCharacter",
                       ch |-> input[Min(UnquotableAt(input))]]

\* a '"', a whitespace and a backslash
C15_Witness ==
    /\ QuotesFromFirst /\ op = "quote"
    /\ input = <<DQUOTE, SPACE, BACKSLASH>>
    /\ res.kind = "ok"
    /\ res.out = <<DQUOTE, BACKSLASH, DQUOTE, SPACE, BACKSLASH, BACKSLASH, DQUOTE>>

\* C16: on every successful quote_if_needed call the returned QuotedStringType is
\* AsciiOnly exactly when the input has no non-us-ascii char, whichever type was
\* allowed, borrowed or quoted.
C16_ReturnedType ==
    (op = "quote_if_needed" /\ res.kind = "ok")
        => (res.qst = "AsciiOnly" <=> AllAscii(input))

\* the non-us-ascii char comes after the first char the check refuses
C16_Witness ==
    /\ op = "quote_if_needed" /\ res.kind = "ok"
    /\ arg.check = "TokenCheck"
    /\ input = <<LOWER_A, SPACE, ARROW>>
    /\ res.owned /\ res.qst = "Utf8"

\* C17: with QuotedStringType::AsciiOnly every input with a non-us-ascii char yields
\* an error, also when the check accepts that char; it is neither returned
\* borrowed nor quoted.
C17_AsciiOnly ==
    (op = "quote_if_needed" /\ arg.tp = "AsciiOnly" /\ ~AllAscii(input))
        => res.kind = "err"

\* the check accepts the arrow, the call fails
C17_Witness ==
    /\ op = "quote_if_needed" /\ arg.tp = "AsciiOnly"
    /\ arg.check = "NonAsciiOrQtext"
    /\ input = <<LOWER_A, ARROW>>
    /\ next_char(arg.check, ARROW)
    /\ res = [kind |-> "err", err |-> "NonUsAsciiInput"]

\* C18: the table QTEXT_INFO a quoting call reads has an entry for each code
\* 0x00..0x7F and no other: 1 exactly for '"' and
\* backslash, 3 exactly for space and tab, 2 exactly for the qtext chars '!',
\* '#'..'[' and ']'..'~', 0 for every other code.
C18_QtextInfo ==
    op \in {"quote", "quote_if_needed"}
        => /\ Len(QTEXT_INFO) = 128
           /\ \A code \in 0..127 :
                 QTEXT_INFO[code + 1] =
                     CASE code \in {DQUOTE, BACKSLASH} -> 1
                       [] code \in {SPACE, TAB} -> 3
                       [] code = BANG \/ (code >= HASH /\ code <= LBRACKET)
                          \/ (code >= RBRACKET /\ code <= TILDE) -> 2
                       [] OTHER -> 0

\* the table is read for a char of each of the classes 1, 3 and 2
C18_Witness ==
    /\ op = "quote"
    /\ input = <<DQUOTE, SPACE, LOWER_A>>
    /\ QTEXT_INFO[DQUOTE + 1] = 1 /\ QTEXT_INFO[SPACE + 1] = 3 /\ QTEXT_INFO[LOWER_A + 1] = 2
    /\ res.kind = "ok"
    /\ res.out = <<DQUOTE, BACKSLASH, DQUOTE, SPACE, LOWER_A, DQUOTE>>

\* C14: absorbing states. Once the automaton is in End or in Failed, every further
\* advance, with any char, returns an error (already ended, respectively advanced
\* after failure) and leaves the automaton in the same state: it never accepts.
C14_Absorbing ==
    [][arg.state \in {"End", "Failed"}
          => /\ arg'.state = arg.state
             /\ res' = [kind |-> "err",
                        err |-> IF arg.state = "End" THEN "QuotedStringAlreadyEnded"
                                ELSE "AdvancedFailedAutomaton"]]_vars

\* the automaton matched '""' and was advanced once more
C14_Witness ==
    /\ op = "advance"
    /\ Len(input) = 3 /\ input[1] = DQUOTE /\ input[2] = DQUOTE
    /\ arg.state = "End"
    /\ res = [kind |-> "err", err |-> "QuotedStringAlreadyEnded"]

\* a consumer that returned, returned what the function returns as a whole
StepsAgree ==
    op = "done"
        => res = CASE arg.consumer = "parse" -> parse(input)
                   [] arg.consumer = "to_content" -> to_content(input, arg.policy)
                   [] arg.consumer = "ContentChars" ->
                         IF from_str_unchecked(input).kind = "ok"
                         THEN collect(from_str_unchecked(input).cc, <<>>, arg.policy)
                         ELSE from_str_unchecked(input)

\* the calls that pass the chars of s to the validator, in order
Events(s) == [k \in 1..Len(s) |-> Validated(s[k])]

IsPrefix(a, b) == Len(a) <= Len(b) /\ a = SubSeq(b, 1, Len(a))

IsValidated(e) == e.call = "validate_next_char"

\* the interior a consumer that succeeded had to validate: parse that of the
\* quoted string it matched, to_content and ContentChars that of their input
ValidatedInterior ==
    IF arg.consumer = "parse" THEN Interior(res.quoted_string) ELSE Interior(input)

\* the chars passed to the validator so far are, in order and with none left
\* out, the chars that follow the opening '"'
InOrderNoSkip ==
    IsPrefix(SelectSeq(arg.log, IsValidated), Events(SubSeq(input, 2, Len(input))))

\* a consumer that succeeded passed the whole interior and then called
\* end_validation, once
EndedOnce ==
    (op = "done" /\ res.kind = "ok") => arg.log = Append(Events(ValidatedInterior), Ended)

\* no call follows end_validation
NothingAfterEnd ==
    \A k \in 1..(Len(arg.log) - 1) : arg.log[k] # Ended

\* C20: parse, to_content and ContentChars follow the usage protocol of
\* QuotedValidator: they pass the chars of the interior to validate_next_char in
\* order without skipping one, call end_validation once after the last char, and
\* make no call on the validator afterwards.
C20_ValidatorProtocol ==
    /\ InOrderNoSkip
    /\ EndedOnce
    /\ NothingAfterEnd

\* the indices of the chars of s that move the automaton into End
MovesToEnd(s) ==
    {k \in 1..Len(s) : StateAfter(s, k) = "End" /\ StateAfter(s, k - 1) # "End"}

\* C21: parse accepts what the scan automaton accepts. parse succeeds exactly when
\* the automaton, fed the chars of the input from Start, reaches End, and the
\* matched span ends at the char that moved the automaton to End.
C21_ParseAsAutomaton ==
    op = "parse"
        => /\ res.kind = "ok" <=> MovesToEnd(input) # {}
           /\ res.kind = "ok" =>
                 /\ MovesToEnd(input) = {Len(res.quoted_string)}
                 /\ res.quoted_string = SubSeq(input, 1, Len(res.quoted_string))

\* Start, Normal, EscapeStarted, Normal, Normal, End, and a char left over
C21_Witness ==
    /\ op = "parse" /\ res.kind = "ok"
    /\ Len(input) = 5
    /\ input[2] = BACKSLASH /\ input[3] = DQUOTE /\ input[4] = DQUOTE
    /\ StateAfter(input, 2) = "EscapeStarted"
    /\ StateAfter(input, 4) = "End"
    /\ res.quoted_string = SubSeq(input, 1, 4) /\ Len(res.tail) = 1

\* a quote_if_needed that returned, returned what the function returns as a whole
QuoteStepsAgree ==
    op = "done" => res = quote_if_needed(input, arg.check, arg.tp)

IsNextChar(e) == e.call = "next_char"
IsEnd(e) == e.call = "end"
IsClassified(e) == e.call = "classify"

\* C22: during one quote_if_needed call next_char is called on the chars of the
\* input in order, at most once per char and not again after its first false; end
\* is called at most once, after the last char and only when every next_char
\* returned true; and the classification of _quote is applied once to each char
\* from the first the check refused to the end of the input (up to the char that
\* makes the call fail), and to no char before it.
C22_CallOrder ==
    op # "init"
        => LET asked == SelectSeq(arg.log, IsNextChar)
               ended == SelectSeq(arg.log, IsEnd)
               classified == SelectSeq(arg.log, IsClassified)
               k == PassingPrefixLen(arg.check, input)
           IN  /\ arg.log = asked \o ended \o classified
               /\ \A j \in 1..Len(asked) :
                     /\ asked[j].i = j /\ asked[j].ch = input[j]
                     /\ j < Len(asked) => asked[j].ret
               /\ Len(ended) <= 1
               /\ Len(ended) = 1 =>
                     /\ Len(asked) = Len(input)
                     /\ \A j \in 1..Len(asked) : asked[j].ret
               /\ \A j \in 1..Len(classified) :
                     /\ classified[j].i = k + j
                     /\ classified[j].ch = input[k + j]
               /\ (op = "done" /\ res.kind = "ok" /\ res.owned)
                     => Len(classified) = Len(input) - k

\* two chars pass, the third is refused and is the only one classified
C22_Witness ==
    /\ op = "done" /\ res.kind = "ok" /\ res.owned
    /\ arg.check = "TokenCheck"
    /\ input = <<LOWER_A, LOWER_A, DQUOTE>>
    /\ Len(arg.log) = 4
    /\ arg.log[3] = NextCharCall(3, DQUOTE, FALSE)
    /\ arg.log[4] = Classified(3, DQUOTE)

\* ContentChars::from_str_unchecked(quoted)?.collect::<Result<String, _>>()
Collected(quoted, policy) ==
    IF from_str_unchecked(quoted).kind = "ok"
    THEN collect(from_str_unchecked(quoted).cc, <<>>, policy)
    ELSE from_str_unchecked(quoted)

\* both fail alike or both succeed with the same content
SameOutcome(a, b) ==
    /\ a.kind = b.kind
    /\ a.kind = "ok" => a.out = b.out
    /\ a.kind = "err" => a.err = b.err

\* C23: for every input and every tailing-escape policy to_content has the outcome
\* of collecting the items of ContentChars::from_str_unchecked on that input: the
\* same error, or the same content.
C23_ToContentAsCollect ==
    op = "to_content" => SameOutcome(res, Collected(input, arg.policy))

\* scan_unchanged splits at the backslash, the iterator decodes it on its own
C23_Witness ==
    /\ op = "to_content"
    /\ input = Wrap(<<LOWER_A, BACKSLASH, DQUOTE>>)
    /\ res = [kind |-> "ok", owned |-> TRUE, out |-> <<LOWER_A, DQUOTE>>]
    /\ Collected(input, arg.policy) = [kind |-> "ok", out |-> <<LOWER_A, DQUOTE>>]

\* C24: equality on ContentChars is reflexive, as Eq declares: a ContentChars
\* compares equal to a clone of itself, also when its text yields a decode error
\* or ends in a tailing escape.
C24_EqReflexive ==
    (op = "eq_cc" /\ arg.made_by = "wrap" /\ arg.other = arg.content)
        => res.ret = TRUE

\* C25: if validate(x) is true, to_content(x) succeeds, whatever the
\* tailing-escape policy.
C25_ValidImpliesContent ==
    (op = "validate" /\ res.ret)
        => \A policy \in Policies : to_content(input, policy).kind = "ok"

\* a quoted-pair of two backslashes and a newline: valid, and decoded
C25_Witness ==
    /\ op = "validate" /\ res.ret
    /\ input = Wrap(<<BACKSLASH, BACKSLASH, LF>>)
    /\ to_content(input, "TestSpec") = [kind |-> "ok", owned |-> TRUE, out |-> <<BACKSLASH>>]

\* the implementer obligation: each char the check accepts is not unquotable
MeetsObligation(check) ==
    \A ch \in 0..127 : next_char(check, ch) => QTEXT_INFO[ch + 1] # Unquotable

\* a quoted string with only pairs resolved (no grammar drops a char)
RECURSIVE Unescaped(_)
Unescaped(s) ==
    IF s = <<>> THEN <<>>
    ELSE IF Head(s) = BACKSLASH /\ Len(s) >= 2
         THEN <<s[2]>> \o Unescaped(SubSeq(s, 3, Len(s)))
         ELSE <<Head(s)>> \o Unescaped(Tail(s))

\* C26: for a check that meets the implementer obligation, an owned result of
\* quote_if_needed is a complete quoted string (its first '"' that no backslash
\* escapes is its last char) and its decoded content is the input: the chars
\* copied before the first refused char leave no unescaped '"' or backslash.
C26_QuotedIsComplete ==
    (op = "quote_if_needed" /\ res.kind = "ok" /\ res.owned /\ MeetsObligation(arg.check))
        => /\ Head(res.out) = DQUOTE
           /\ ClosingQuotes(res.out) = {Len(res.out)}
           /\ Unescaped(Interior(res.out)) = input

RECURSIVE ItemsLeft(_, _)
\* the number of items, Ok or Err, the iterator yields before None
ItemsLeft(cc, policy) ==
    IF next(cc, policy).item.kind = "none"
    THEN 0
    ELSE 1 + ItemsLeft(next(cc, policy).cc, policy)

\* C27: at every point of an iteration the bounds of size_hint enclose the number
\* of items the iterator still yields: lower <= that number <= upper, also with
\* quoted-pairs and non-semantic whitespace in the text left.
C27_SizeHint ==
    op = "content_chars"
        => /\ size_hint(arg.l.cc).lower <= ItemsLeft(arg.l.cc, arg.policy)
           /\ ItemsLeft(arg.l.cc, arg.policy) <= size_hint(arg.l.cc).upper

====
